---- MODULE Spec2Model ----
(***************************************************************************)
(* A model of src/bot.py: the SAT quiz bot's two in-memory dictionaries    *)
(* (user_sessions, user_scores), the completion-service wrapper            *)
(* generate_problem and the two coroutine handlers problem and             *)
(* check_answer.  A handler runs without interruption between two of its   *)
(* await expressions; each action below is one such uninterrupted stretch  *)
(* of code.  The handlers are started by the application that main()       *)
(* builds (lines 215-222): built without concurrent_updates and with       *)
(* blocking handlers, it takes one update at a time from its queue and     *)
(* awaits the handler of that update to its end before it takes the next,  *)
(* so updates that arrive while a handler is suspended wait in the queue   *)
(* and no two handlers are ever in flight.                                 *)
(***************************************************************************)
EXTENDS Integers, Sequences, FiniteSets, TLC

\* ------------------------------------------------------------------ bounds

\* Triggers (updates routed to problem or check_answer) received in a run.
MaxTriggers == 3

\* Updates that may wait in the application's queue at the same time.
MaxQueue == 1

Users == {1, 2}

\* Slots for handler coroutines.  The application of main() has one handler
\* in flight at a time and uses the first slot only; the second one is
\* taken only by a dispatcher that lets handlers overlap.
Tasks == {1, 2}

\* ------------------------------------------------- text of a user's message

\* A message text is a sequence of characters.
Whitespace == {" "}

Lower == <<"a", "b", "c", "d", "e">>

Upper == <<"A", "B", "C", "D", "E">>

\* str.upper() on one character.
UpperChar(c) ==
    IF \E i \in 1..Len(Lower) : Lower[i] = c
    THEN Upper[CHOOSE i \in 1..Len(Lower) : Lower[i] = c]
    ELSE c

\* str.strip(): drop the leading and the trailing whitespace.
RECURSIVE LStrip(_)
LStrip(s) ==
    IF s # <<>> /\ Head(s) \in Whitespace THEN LStrip(Tail(s)) ELSE s

RECURSIVE RStrip(_)
RStrip(s) ==
    IF s # <<>> /\ s[Len(s)] \in Whitespace
    THEN RStrip(SubSeq(s, 1, Len(s) - 1))
    ELSE s

Strip(s) == RStrip(LStrip(s))

ToUpper(s) == [i \in 1..Len(s) |-> UpperChar(s[i])]

\* update.message.text.strip(), without the upper()
NormalizeNoUpper(text) == Strip(text)

\* update.message.text.strip().upper()
Normalize(text) == ToUpper(Strip(text))

\* The message texts the model submits.
Texts ==
    { <<"b">>, <<"B">>, <<" ", "b", " ">>, <<"c">>, <<"E">>, <<" ">> }

\* user_answer not in ["A", "B", "C", "D"], negated
ValidLetterAcceptsE(answer) ==
    answer \in {<<"A">>, <<"B">>, <<"C">>, <<"D">>, <<"E">>}

ValidLetter(answer) == answer \in {<<"A">>, <<"B">>, <<"C">>, <<"D">>}

\* ------------------------------------------------------------- JSON values

\* What json.loads can return, as far as the handlers look into it.  type is
\* the Python type of the value; members are the strings s with `s in data`
\* true (the keys of an object, the elements of an array, the substrings of
\* a string); the other fields are the values under the object's keys.
\* choices keeps the dictionary's insertion order.
required_keys == <<"question", "choices", "correct_answer", "explanation">>

AllKeys == {required_keys[i] : i \in 1..Len(required_keys)}

Obj(members, question, choices, correct_answer, explanation, explanation_type) ==
    [type |-> "object", members |-> members, question |-> question,
     choices |-> choices, correct_answer |-> correct_answer,
     explanation |-> explanation, explanation_type |-> explanation_type]

NonObj(type, members) ==
    [type |-> type, members |-> members, question |-> "",
     choices |-> <<>>, correct_answer |-> <<>>,
     explanation |-> "", explanation_type |-> "str"]

\* The fallback question of generate_problem.
Fallback ==
    Obj(AllKeys, "If 2x + 3 = 11, what is x?",
        << <<"A", "3">>, <<"B", "4">>, <<"C", "5">>, <<"D", "6">> >>,
        <<"B">>, "2x + 3 = 11 -> 2x = 8 -> x = 4", "str")

\* Upstream answers: a well-formed item,
GoodItem ==
    Obj(AllKeys, "If 3x = 12, what is x?",
        << <<"A", "2">>, <<"B", "3">>, <<"C", "4">>, <<"D", "6">> >>,
        <<"C">>, "3x = 12 -> x = 4", "str")

\* a well-formed item whose choices come in another order,
ShuffledItem ==
    Obj(AllKeys, "If x - 1 = 0, what is x?",
        << <<"D", "4">>, <<"C", "3">>, <<"B", "2">>, <<"A", "1">> >>,
        <<"A">>, "x - 1 = 0 -> x = 1", "str")

\* an object without its explanation,
MissingKeyItem ==
    Obj(AllKeys \ {"explanation"}, "If x = 1, what is x?",
        << <<"A", "1">>, <<"B", "2">>, <<"C", "3">>, <<"D", "4">> >>,
        <<"A">>, "", "str")

\* an object with the four keys whose correct_answer is no label of choices,
BadAnswerItem ==
    Obj(AllKeys, "If x = 2, what is x?",
        << <<"A", "1">>, <<"B", "2">> >>,
        <<"E">>, "x = 2", "str")

\* an object with the four keys whose explanation is a number,
NumExplanationItem ==
    Obj(AllKeys, "If x = 3, what is x?",
        << <<"A", "1">>, <<"B", "2">>, <<"C", "3">>, <<"D", "4">> >>,
        <<"C">>, "3", "number")

\* the JSON string "question choices correct_answer explanation",
KeyString == NonObj("string", AllKeys)

\* the JSON array [], the JSON number 42,
EmptyArray == NonObj("array", {})

Number == NonObj("number", {})

\* and text that is no JSON at all.
NotJson == NonObj("invalid", {})

Bodies ==
    { GoodItem, ShuffledItem, MissingKeyItem, BadAnswerItem,
      NumExplanationItem, KeyString, EmptyArray, Number, NotJson }

\* What the completion service does with one call: it raises (a network
\* error, a timeout, a response without text), or returns a text, with or
\* without ``` fences around its body.
Responses ==
    [raises : {TRUE}, fenced : {FALSE}, body : {NotJson}]
        \cup [raises : {FALSE}, fenced : BOOLEAN, body : Bodies]

\* text.replace("```json", "").replace("```", "").strip(): the body.
StripFences(resp) == resp.body

\* Python's `key in data` raises TypeError: the type has no `in`.
InRaises(data) == data.type \notin {"object", "string", "array"}

\* Python's `key in data` for a dictionary (a key), a list (an element) or a
\* string (a substring).
In(key, data) == key \in data.members

\* all(key in data for key in required_keys)
HasRequiredKeys(data) ==
    \A i \in 1..Len(required_keys) : In(required_keys[i], data)

\* generate_problem: the value it returns for one response of the service.
\* Every exception of the try block ends in the fallback question.
generate_problem(resp) ==
    IF resp.raises THEN Fallback
    ELSE LET data == StripFences(resp)
         IN  IF data.type = "invalid" THEN Fallback
             ELSE IF InRaises(data) THEN Fallback
             ELSE IF ~HasRequiredKeys(data) THEN Fallback
             ELSE data

\* data[key] works: data is a dictionary with that key.
Subscriptable(data, key) == data.type = "object" /\ key \in data.members


\* ------------------------------------------------------------------- state

VARIABLES
    user_sessions,  \* the dictionary user_sessions: user id -> stored item
    user_scores,    \* the dictionary user_scores: user id -> correct, total
    task,           \* the handlers in flight: where each is suspended
    queue,          \* the updates received and not yet handed to a handler
    ntrig,          \* triggers handed to a handler so far
    stored,         \* per user, how often line 151 stored an item
    out,            \* the text this step handed to reply_text, if any
    event           \* what this step was

vars == <<user_sessions, user_scores, task, queue, ntrig, stored, out, event>>

Free == [pc |-> "free", user |-> 0]

Suspended(pc, u) == [pc |-> pc, user |-> u]

\* The wait of a handler suspended at pc gives the event loop back: each is
\* an `await`, and the completion service is called in the executor (line
\* 97), not in the event loop's own thread.
Yields(pc) ==
    pc \in {"send_action", "generate", "reply_conflict", "reply_question",
            "reply_format", "reply_result"}

\* The event loop can run a step of handler t: no other handler holds it.
LoopFree(t) ==
    \A s \in Tasks \ {t} : task[s] = Free \/ Yields(task[s].pc)

\* A dispatcher that starts the handler of the next update while another
\* handler is suspended (an application built with concurrent_updates).
FirstFreeOverlapping(t) ==
    /\ task[t] = Free
    /\ \A s \in Tasks : s < t => task[s] # Free

\* The application of main() (line 215: no concurrent_updates; lines
\* 217-219: blocking handlers) starts the handler of the next update only
\* when the handler of the one before has ended: no handler is in flight.
FirstFree(t) ==
    /\ \A s \in Tasks : task[s] = Free
    /\ \A s \in Tasks : t <= s

\* The users whose new-question handler has passed line 141 and has not
\* stored its item yet: it awaits send_action or the completion service.
During ==
    {task[s].user : s \in {r \in Tasks :
                              task[r].pc \in {"send_action", "generate"}}}

\* An update routed to problem (kind "problem") or to check_answer (kind
\* "text", with the message text).  `during` records the users whose
\* generation was pending when the update was received.
Update(kind, u, text, during) ==
    [kind |-> kind, user |-> u, text |-> text, during |-> during]


\* ----------------------------------------------------------------- replies

Reply(kind, question, lines, verdict, shown, explanation, correct, total) ==
    [kind |-> kind, question |-> question, lines |-> lines,
     verdict |-> verdict, shown |-> shown, explanation |-> explanation,
     correct |-> correct, total |-> total]

NoReply == Reply("none", "", <<>>, "", <<>>, "", 0, 0)

\* "You already have a question. Answer it first!"
ConflictReply == Reply("conflict", "", <<>>, "", <<>>, "", 0, 0)

\* "Please reply with A, B, C, or D."
FormatReply == Reply("format", "", <<>>, "", <<>>, "", 0, 0)

\* The label order A, B, C, D.
LabelOrder == <<"A", "B", "C", "D">>

\* f"{key}) {value}\n": one line of the question reply.
ChoiceLine(pair) == <<pair[1], ") ", pair[2]>>

\* The lines of the question reply with the choices sorted by label.
QuestionLinesByLabel(data) ==
    LET present == SelectSeq(LabelOrder,
                       LAMBDA l : \E i \in 1..Len(data.choices) :
                                      data.choices[i][1] = l)
        sorted == [k \in 1..Len(present) |->
                      data.choices[CHOOSE i \in 1..Len(data.choices) :
                                       data.choices[i][1] = present[k]]]
    IN  << <<data.question>>, <<>> >>
            \o [k \in 1..Len(sorted) |-> ChoiceLine(sorted[k])]
            \o << <<>>, <<"Reply with A, B, C, or D.">> >>

\* Lines 153-160: the question, a blank line, "<key>) <value>" for each of
\* choices.items() in the dictionary's order, a blank line, the instruction.
QuestionLines(data) ==
    << <<data.question>>, <<>> >>
        \o [i \in 1..Len(data.choices) |-> ChoiceLine(data.choices[i])]
        \o << <<>>, <<"Reply with A, B, C, or D.">> >>

\* The text handed to reply_text at line 162.
QuestionReply(data) ==
    Reply("question", data.question, QuestionLines(data), "", <<>>, "", 0, 0)

\* The verdict (with the correct answer when the verdict is Incorrect), the
\* explanation and the score.
ResultReply(data, isCorrect, score) ==
    Reply("result", "", <<>>,
          IF isCorrect THEN "Correct" ELSE "Incorrect",
          IF isCorrect THEN <<>> ELSE data.correct_answer,
          data.explanation, score.correct, score.total)

\* No response: the step was no return of the completion service.
NoResponse == [raises |-> FALSE, fenced |-> FALSE, body |-> NonObj("none", {})]

\* What a step was: the handler, the line it started from ("entry" for a new
\* trigger), the user, the normalized answer of a check_answer trigger, the
\* exception the handler ended with, if it did, and the response of the
\* completion service the step consumed, if it did.
Event(op, at, u, answer, raised, resp) ==
    [op |-> op, at |-> at, user |-> u, answer |-> answer, raised |-> raised,
     resp |-> resp, during |-> {}]

\* ------------------------------------------------------------ dictionaries

\* user_id in user_sessions, at line 141
AlreadyHasQuestionNever(u) == FALSE

AlreadyHasQuestion(u) == u \in DOMAIN user_sessions

\* user_sessions[user_id] = data
Store(sessions, u, data) ==
    [v \in DOMAIN sessions \cup {u} |-> IF v = u THEN data ELSE sessions[v]]

\* del user_sessions[user_id]
ClearSessionAll(sessions, u) == <<>>

ClearSession(sessions, u) ==
    [v \in DOMAIN sessions \ {u} |-> sessions[v]]

\* Lines 189-195: the record is created at 0/0 if absent, total is
\* incremented, correct is incremented when the answer is the correct one.
RecordAlwaysCorrect(scores, u, isCorrect) ==
    LET old == IF u \in DOMAIN scores THEN scores[u]
               ELSE [correct |-> 0, total |-> 0]
        new == [correct |-> old.correct + 1, total |-> old.total + 1]
    IN  [v \in DOMAIN scores \cup {u} |-> IF v = u THEN new ELSE scores[v]]

Record(scores, u, isCorrect) ==
    LET old == IF u \in DOMAIN scores THEN scores[u]
               ELSE [correct |-> 0, total |-> 0]
        new == [correct |-> old.correct + (IF isCorrect THEN 1 ELSE 0),
                total |-> old.total + 1]
    IN  [v \in DOMAIN scores \cup {u} |-> IF v = u THEN new ELSE scores[v]]

\* Lines 178-183 of check_answer: return without a word when the user has no
\* question, ask for a letter when the answer is none, grade otherwise.
check_answer_branch_format_first(u, answer) ==
    IF ~ValidLetter(answer) THEN "format"
    ELSE IF u \notin DOMAIN user_sessions THEN "return"
    ELSE "grade"

check_answer_branch(u, answer) ==
    IF u \notin DOMAIN user_sessions THEN "return"
    ELSE IF ~ValidLetter(answer) THEN "format"
    ELSE "grade"

\* -------------------------------------------------------------------- Init

Init ==
    /\ user_sessions = <<>>
    /\ user_scores = <<>>
    /\ task = [t \in Tasks |-> Free]
    /\ queue = <<>>
    /\ ntrig = 0
    /\ stored = [u \in Users |-> 0]
    /\ out = NoReply
    /\ event = Event("none", "none", 0, <<>>, "none", NoResponse)

\* ---------------------------------------------------------------- dispatch

\* run_polling (line 222) receives an update of a user and puts it in the
\* application's queue.
Receive(kind, u, text) ==
    /\ ntrig + Len(queue) < MaxTriggers
    /\ Len(queue) < MaxQueue
    /\ queue' = Append(queue, Update(kind, u, text, During))
    /\ event' = Event("update", "receive", u, <<>>, "none", NoResponse)
    /\ out' = NoReply
    /\ UNCHANGED <<user_sessions, user_scores, task, ntrig, stored>>

\* The application takes the next update from its queue and starts the
\* handler that lines 217-219 registered for it.
Dispatch(t, kind, u, text) ==
    /\ queue # <<>>
    /\ Head(queue).kind = kind
    /\ Head(queue).user = u
    /\ Head(queue).text = text
    /\ FirstFree(t)
    /\ LoopFree(t)
    /\ queue' = Tail(queue)
    /\ ntrig' = ntrig + 1

\* ----------------------------------------------------------------- problem

\* problem, lines 134-147: a user who has a question is told so (reply_text
\* at line 142 is awaited, then the handler returns); for any other user the
\* handler awaits send_action("typing").
problem(t, u, during) ==
    /\ event' = [Event("problem", "entry", u, <<>>, "none", NoResponse)
                    EXCEPT !.during = during]
    /\ IF AlreadyHasQuestion(u)
       THEN /\ out' = ConflictReply
            /\ task' = [task EXCEPT ![t] = Suspended("reply_conflict", u)]
       ELSE /\ out' = NoReply
            /\ task' = [task EXCEPT ![t] = Suspended("send_action", u)]
    /\ UNCHANGED <<user_sessions, user_scores, stored>>

\* A /problem update is handed to problem.
Problem(t, u) ==
    /\ Dispatch(t, "problem", u, <<>>)
    /\ problem(t, u, Head(queue).during)

\* Line 147 returns: generate_problem is called and awaits the completion
\* service in the executor (line 97).  Or line 147 raises: the handler ends.
SendActionDone(t, ok) ==
    /\ task[t].pc = "send_action"
    /\ LoopFree(t)
    /\ event' = Event("problem", "send_action", task[t].user, <<>>,
                      IF ok THEN "none" ELSE "TelegramError", NoResponse)
    /\ task' = [task EXCEPT ![t] =
                   IF ok THEN Suspended("generate", task[t].user) ELSE Free]
    /\ out' = NoReply
    /\ UNCHANGED <<user_sessions, user_scores, queue, ntrig, stored>>

\* The completion service has answered (or raised): lines 102-128 make the
\* item, line 151 stores it, lines 153-162 format and send the question.
\* data["question"] raises TypeError when data is no dictionary.
GenerateDone(t, resp) ==
    /\ task[t].pc = "generate"
    /\ LoopFree(t)
    /\ LET u == task[t].user
           data == generate_problem(resp)
           fails == ~Subscriptable(data, "question")
                        \/ ~Subscriptable(data, "choices")
       IN  /\ user_sessions' = Store(user_sessions, u, data)
           /\ stored' = [stored EXCEPT ![u] = @ + 1]
           /\ event' = Event("problem", "generate", u, <<>>,
                             IF fails THEN "TypeError" ELSE "none", resp)
           /\ IF fails
              THEN /\ out' = NoReply
                   /\ task' = [task EXCEPT ![t] = Free]
              ELSE /\ out' = QuestionReply(data)
                   /\ task' = [task EXCEPT ![t] = Suspended("reply_question", u)]
    /\ UNCHANGED <<user_scores, queue, ntrig>>

\* reply_text of line 142, 162 or 182 returns or raises: the handler ends
\* either way, and nothing else follows in it.
ReplyDone(t, ok) ==
    /\ task[t].pc \in {"reply_conflict", "reply_question", "reply_format"}
    /\ LoopFree(t)
    /\ event' = Event(IF task[t].pc = "reply_format" THEN "check_answer"
                      ELSE "problem",
                      task[t].pc, task[t].user, <<>>,
                      IF ok THEN "none" ELSE "TelegramError", NoResponse)
    /\ task' = [task EXCEPT ![t] = Free]
    /\ out' = NoReply
    /\ UNCHANGED <<user_sessions, user_scores, queue, ntrig, stored>>

\* ------------------------------------------------------------ check_answer

\* check_answer, lines 168-205, up to the await of the reply.
\* data["correct_answer"] raises TypeError when data is no dictionary, and
\* "Explanation:\n" + data["explanation"] when the explanation is no string
\* (the score is updated by then).
check_answer(t, u, text, during) ==
    /\ LET answer == Normalize(text)
           branch == check_answer_branch(u, answer)
           Ev(raised) == [Event("check_answer", "entry", u, answer, raised,
                                NoResponse) EXCEPT !.during = during]
       IN  CASE branch = "return" ->
                  /\ event' = Ev("none")
                  /\ out' = NoReply
                  /\ UNCHANGED <<user_sessions, user_scores, task>>
             [] branch = "format" ->
                  /\ event' = Ev("none")
                  /\ out' = FormatReply
                  /\ task' = [task EXCEPT ![t] = Suspended("reply_format", u)]
                  /\ UNCHANGED <<user_sessions, user_scores>>
             [] branch = "grade" ->
                  LET data == user_sessions[u]
                  IN  IF ~Subscriptable(data, "correct_answer")
                      THEN /\ event' = Ev("TypeError")
                           /\ out' = NoReply
                           /\ UNCHANGED <<user_sessions, user_scores, task>>
                      ELSE LET isCorrect == answer = data.correct_answer
                               scores == Record(user_scores, u, isCorrect)
                               fails == ~Subscriptable(data, "explanation")
                                           \/ data.explanation_type # "str"
                           IN  /\ user_scores' = scores
                               /\ event' = Ev(IF fails THEN "TypeError"
                                               ELSE "none")
                               /\ IF fails
                                  THEN /\ out' = NoReply
                                       /\ UNCHANGED task
                                  ELSE /\ out' = ResultReply(data, isCorrect,
                                                            scores[u])
                                       /\ task' = [task EXCEPT ![t] =
                                             Suspended("reply_result", u)]
                               /\ UNCHANGED user_sessions
    /\ UNCHANGED stored

\* A text message that is no command is handed to check_answer.
CheckAnswer(t, u, text) ==
    /\ Dispatch(t, "text", u, text)
    /\ check_answer(t, u, text, Head(queue).during)

\* reply_text of line 205 returns: line 208 deletes the user's entry, and
\* raises KeyError when there is none.  Or reply_text raises: the handler
\* ends before line 208.
ResultReplyDone(t, ok) ==
    /\ task[t].pc = "reply_result"
    /\ LoopFree(t)
    /\ LET u == task[t].user
       IN  IF ok /\ u \in DOMAIN user_sessions
           THEN /\ user_sessions' = ClearSession(user_sessions, u)
                /\ event' = Event("check_answer", "reply_result", u, <<>>, "none", NoResponse)
           ELSE /\ UNCHANGED user_sessions
                /\ event' = Event("check_answer", "reply_result", u, <<>>,
                                  IF ok THEN "KeyError" ELSE "TelegramError", NoResponse)
    /\ task' = [task EXCEPT ![t] = Free]
    /\ out' = NoReply
    /\ UNCHANGED <<user_scores, queue, ntrig, stored>>

\* -------------------------------------------------------------------- Next

\* The updates received, and the steps of the handlers with the completion
\* service answering from R.
NextOver(R) ==
    \/ \E u \in Users : Receive("problem", u, <<>>)
    \/ \E u \in Users, text \in Texts : Receive("text", u, text)
    \/ \E t \in Tasks, u \in Users : Problem(t, u)
    \/ \E t \in Tasks, ok \in BOOLEAN : SendActionDone(t, ok)
    \/ \E t \in Tasks, resp \in R : GenerateDone(t, resp)
    \/ \E t \in Tasks, ok \in BOOLEAN : ReplyDone(t, ok)
    \/ \E t \in Tasks, u \in Users, text \in Texts : CheckAnswer(t, u, text)
    \/ \E t \in Tasks, ok \in BOOLEAN : ResultReplyDone(t, ok)

Next == NextOver(Responses)

Spec == Init /\ [][Next]_vars

\* The responses from which generate_problem makes an item with four
\* choices A-D, a correct answer among them and a text as explanation: the
\* service raises, or answers no JSON, or a well-formed item, or a value
\* that generate_problem rejects.
ValidResponses ==
    {resp \in Responses :
        LET data == generate_problem(resp)
        IN  /\ data.type = "object"
            /\ AllKeys \subseteq data.members
            /\ {data.choices[i][1] : i \in 1..Len(data.choices)}
                   = {"A", "B", "C", "D"}
            /\ data.correct_answer
                   \in {<<data.choices[i][1]>> : i \in 1..Len(data.choices)}
            /\ data.explanation_type = "str"}

NextValid == NextOver(ValidResponses)

\* The program with a completion service that never makes generate_problem
\* return a malformed item.
SpecValid == Init /\ [][NextValid]_vars

\* ------------------------------------------------------------------ claims

Letters == {<<"A">>, <<"B">>, <<"C">>, <<"D">>}

\* The step handled a new trigger of this handler.
IsTrigger(op) ==
    /\ ntrig' = ntrig + 1
    /\ event'.op = op
    /\ event'.at = "entry"

\* read(userId): the record, 0/0 when there is none.
ScoreOf(scores, u) ==
    IF u \in DOMAIN scores THEN scores[u] ELSE [correct |-> 0, total |-> 0]

\* The session entry of a user, as a set: empty when there is none.
EntryOf(sessions, u) ==
    IF u \in DOMAIN sessions THEN {sessions[u]} ELSE {}

\* The score record of a user, as a set: empty when there is none.
RecordOf(scores, u) ==
    IF u \in DOMAIN scores THEN {scores[u]} ELSE {}

\* A quiz item as section 3 of the specification defines it: the four keys,
\* choices with exactly the labels A, B, C, D, each once, and a correct
\* answer that is one of them.
WellFormed(data) ==
    /\ data.type = "object"
    /\ AllKeys \subseteq data.members
    /\ Len(data.choices) = 4
    /\ {<<data.choices[i][1]>> : i \in 1..Len(data.choices)} = Letters
    /\ data.correct_answer \in Letters
    /\ data.explanation_type = "str"

\* C1: the check for an open question and the store of the new one are
\* indivisible per user: whenever an item is stored for a user (line 151),
\* that user has no open item at that moment, so no open item is
\* overwritten, whatever updates were received in between.
C1_StoreOnlyWhenIdle ==
    [][\A u \in Users :
          stored'[u] # stored[u] => u \notin DOMAIN user_sessions]_vars

\* C1's case: a second /problem of a user, received while the generation
\* of the first was pending, has been refused after the first had stored
\* its item, which is still the only one stored for that user.
C1_Witness ==
    /\ event.op = "problem"
    /\ event.at = "entry"
    /\ event.user \in event.during
    /\ event.user \in DOMAIN user_sessions
    /\ stored[event.user] = 1
    /\ out = ConflictReply

\* C2: each opened question is scored at most once: for every user, in
\* every reachable state, the total of the score record does not exceed the
\* number of items stored for that user.
C2_ScoredOncePerItem ==
    \A u \in Users : ScoreOf(user_scores, u).total <= stored[u]

\* C3: a new-question trigger of a user who has an open question is refused:
\* the step hands the conflict message to reply_text and suspends there,
\* leaving every session entry and every score record as they were; and a
\* handler suspended there ends when the reply returns or raises, without
\* changing anything and without ever calling the completion service.
C3_Step ==
    /\ \A u \in Users :
          (IsTrigger("problem") /\ event'.user = u /\ u \in DOMAIN user_sessions)
              => /\ out' = ConflictReply
                 /\ user_sessions' = user_sessions
                 /\ user_scores' = user_scores
                 /\ stored' = stored
                 /\ \E t \in Tasks :
                       /\ task[t] = Free
                       /\ task' = [task EXCEPT ![t] =
                                      Suspended("reply_conflict", u)]
    /\ \A t \in Tasks :
          (task[t].pc = "reply_conflict" /\ task'[t] # task[t])
              => /\ task'[t] = Free
                 /\ out' = NoReply
                 /\ user_sessions' = user_sessions
                 /\ user_scores' = user_scores
                 /\ stored' = stored

C3_RefusedWhenAwaiting == [][C3_Step]_vars

\* C3's case: a user with an open question has just been refused.
C3_Witness ==
    /\ event.op = "problem"
    /\ event.at = "entry"
    /\ event.user \in DOMAIN user_sessions
    /\ out = ConflictReply
    /\ \E t \in Tasks : task[t] = Suspended("reply_conflict", event.user)

\* The step graded an answer: a check_answer trigger of a user with a stored
\* dictionary item, whose normalized text is one of the four letters.
Graded(u) ==
    /\ IsTrigger("check_answer")
    /\ event'.user = u
    /\ u \in DOMAIN user_sessions
    /\ event'.answer \in Letters
    /\ user_sessions[u].type = "object"
    /\ "correct_answer" \in user_sessions[u].members

\* C4: a graded answer adds exactly 1 to the user's total, and 1 to correct
\* if the answer is the item's correct answer and 0 otherwise; no other step
\* changes a score; correct <= total for every user in every state.
C4_Step ==
    \A u \in Users :
        LET old == ScoreOf(user_scores, u)
            new == ScoreOf(user_scores', u)
        IN  IF Graded(u)
            THEN /\ u \in DOMAIN user_scores'
                 /\ new.total = old.total + 1
                 /\ new.correct = old.correct +
                        (IF event'.answer = user_sessions[u].correct_answer
                         THEN 1 ELSE 0)
            ELSE RecordOf(user_scores', u) = RecordOf(user_scores, u)

C4_Bounded ==
    \A u \in DOMAIN user_scores :
        /\ 0 <= user_scores[u].correct
        /\ user_scores[u].correct <= user_scores[u].total

C4_ScoreIncrements == []C4_Bounded /\ [][C4_Step]_vars

\* C4's case: a user's first answer, a letter that is not the correct one,
\* has just been graded.
C4_Witness ==
    /\ event.op = "check_answer"
    /\ event.at = "entry"
    /\ event.answer \in Letters
    /\ event.user \in DOMAIN user_sessions
    /\ event.answer # user_sessions[event.user].correct_answer
    /\ out.kind = "result"
    /\ out.verdict = "Incorrect"
    /\ event.user \in DOMAIN user_scores
    /\ user_scores[event.user] = [correct |-> 0, total |-> 1]

\* C5: every item stored in user_sessions is well-formed: generate_problem
\* accepts an upstream response only with the four keys, choices labelled
\* exactly A, B, C, D and a correct answer among them.
C5_StoredWellFormed ==
    \A u \in DOMAIN user_sessions : WellFormed(user_sessions[u])

\* The response fails: the call raised, or its text is no JSON, or the JSON
\* value is no well-formed quiz item.
FailedResponse(resp) ==
    \/ resp.raises
    \/ resp.body.type = "invalid"
    \/ ~WellFormed(resp.body)

\* C6: when the completion service raises or returns text that fails JSON
\* parsing or shape validation, generate_problem returns exactly the
\* fallback item (which line 151 then stores), and nothing is raised.
C6_FallbackOnFailure ==
    (event.op = "problem" /\ event.at = "generate"
        /\ FailedResponse(event.resp))
        => /\ user_sessions[event.user] = Fallback
           /\ event.raised = "none"

\* C7: a check_answer trigger of a user with an open question whose
\* normalized text is none of A, B, C, D hands the format-correction message
\* to reply_text and changes no session entry and no score record (none is
\* created): the user keeps the same item, however often this is repeated.
C7_Step ==
    \A u \in Users :
        (IsTrigger("check_answer") /\ event'.user = u
            /\ u \in DOMAIN user_sessions /\ event'.answer \notin Letters)
            => /\ out' = FormatReply
               /\ user_sessions' = user_sessions
               /\ user_scores' = user_scores
               /\ stored' = stored

C7_MalformedAnswerKeepsState == [][C7_Step]_vars

\* C7's case: a user with an open question and no score record has sent a
\* malformed answer, whose handler is sending the format message, and the
\* next update in the queue is a further malformed answer of that user.
C7_Witness ==
    /\ \E t \in Tasks : task[t] = Suspended("reply_format", event.user)
    /\ event.user \in DOMAIN user_sessions
    /\ user_scores = <<>>
    /\ queue # <<>>
    /\ Head(queue).kind = "text"
    /\ Head(queue).user = event.user
    /\ Normalize(Head(queue).text) \notin Letters

\* C8: a letter of A, B, C, D submitted by a user with an open question is
\* graded against the stored item: the reply says Correct iff the answer is
\* the item's correct answer, carries the explanation and the tally of the
\* updated record, the record is updated by the verdict, and when the
\* handler ends the user has no stored item.
C8_Step ==
    /\ \A u \in Users :
          (IsTrigger("check_answer") /\ event'.user = u
              /\ u \in DOMAIN user_sessions /\ event'.answer \in Letters)
              => LET data == user_sessions[u]
                     isCorrect == event'.answer = data.correct_answer
                     new == ScoreOf(user_scores', u)
                 IN  /\ event'.raised = "none"
                     /\ out'.kind = "result"
                     /\ out'.verdict = (IF isCorrect THEN "Correct"
                                        ELSE "Incorrect")
                     /\ out'.explanation = data.explanation
                     /\ new = ScoreOf(Record(user_scores, u, isCorrect), u)
                     /\ out'.correct = new.correct
                     /\ out'.total = new.total
    /\ \A t \in Tasks :
          (task[t].pc = "reply_result" /\ task'[t] = Free)
              => task[t].user \notin DOMAIN user_sessions'

C8_GradedThenIdle == [][C8_Step]_vars

\* C9: a check_answer trigger of a user without an open question does
\* nothing, whatever the text: no reply, no session entry, no score record
\* created or changed, no handler left suspended.
C9_Step ==
    \A u \in Users :
        (IsTrigger("check_answer") /\ event'.user = u
            /\ u \notin DOMAIN user_sessions)
            => /\ out' = NoReply
               /\ user_sessions' = user_sessions
               /\ user_scores' = user_scores
               /\ task' = task
               /\ stored' = stored

C9_IdleAnswerNoOp == [][C9_Step]_vars

\* C9's case: a user without an open question has sent text that is no
\* letter.
C9_Witness ==
    /\ event.op = "check_answer"
    /\ event.at = "entry"
    /\ event.user \notin DOMAIN user_sessions
    /\ event.answer \notin Letters
    /\ out = NoReply

\* C10: every step of a handler of user u leaves the session entry and the
\* score record of every other user v as they were.
C10_Step ==
    \A v \in Users :
        v # event'.user
            => /\ EntryOf(user_sessions', v) = EntryOf(user_sessions, v)
               /\ RecordOf(user_scores', v) = RecordOf(user_scores, v)
               /\ stored'[v] = stored[v]

C10_UsersIsolated == [][C10_Step]_vars

\* C10's case: two users have open questions and one of them has just had
\* an answer graded and its reply delivered, which removed only that user's
\* item.
C10_Witness ==
    /\ event.op = "check_answer"
    /\ event.at = "reply_result"
    /\ event.raised = "none"
    /\ event.user \in DOMAIN user_scores
    /\ event.user \notin DOMAIN user_sessions
    /\ \E v \in DOMAIN user_sessions : v # event.user

\* The handling of a letter answer of a user with an open question has just
\* ended: the handler returned or raised after the reply (line 205), or it
\* raised before sending one.
AnswerHandled(u) ==
    /\ event.op = "check_answer"
    /\ event.user = u
    /\ \/ event.at = "reply_result"
       \/ /\ event.at = "entry"
          /\ event.answer \in Letters
          /\ event.raised # "none"

\* C11: once the handling of a valid letter answer of an Awaiting user has
\* ended, the user is Idle: a new-question trigger of that user that comes
\* next is accepted (the handler goes on to the generation) and not refused.
C11_Step ==
    \A u \in Users :
        (AnswerHandled(u) /\ IsTrigger("problem") /\ event'.user = u)
            => /\ out' # ConflictReply
               /\ \E t \in Tasks : task'[t] = Suspended("send_action", u)

C11_NextQuestionAccepted == [][C11_Step]_vars

\* A handler of user u is suspended in the call of the completion service.
Generating(u) == \E s \in Tasks : task[s] = Suspended("generate", u)

\* C12: while a handler of user u is suspended in the call of the
\* completion service, the update of another user v that is next in the
\* queue can be handed to its handler: the pending generation of u does
\* not keep the triggers of v from being processed.
C12_OthersNotBlocked ==
    \A u \in Users : \A v \in Users \ {u} :
        (Generating(u) /\ queue # <<>> /\ Head(queue).user = v)
            => \/ ENABLED (\E t \in Tasks : Problem(t, v))
               \/ ENABLED (\E t \in Tasks, text \in Texts :
                               CheckAnswer(t, v, text))

\* The text of the choice of an item under a label.
TextOf(data, l) ==
    data.choices[CHOOSE i \in 1..Len(data.choices) :
                     data.choices[i][1] = l][2]

\* C13 as claimed: every question reply is the question, a blank line, the
\* four choices as "<label>) <text>" in the label order A, B, C, D whatever
\* order the upstream response had, a blank line and the instruction.
C13_LabelOrder ==
    out.kind = "question" =>
        LET data == user_sessions[event.user]
        IN  out.lines =
                << <<data.question>>, <<>>,
                   <<"A", ") ", TextOf(data, "A")>>,
                   <<"B", ") ", TextOf(data, "B")>>,
                   <<"C", ") ", TextOf(data, "C")>>,
                   <<"D", ") ", TextOf(data, "D")>>,
                   <<>>, <<"Reply with A, B, C, or D.">> >>

\* C13 as amended: every question reply is the question, a blank line, the
\* choices of the item just stored as "<label>) <text>", one per line in
\* the order in which the item's choices mapping holds them (the order of
\* the upstream response), a blank line and the instruction.
C13_InsertionOrder ==
    out.kind = "question" =>
        LET data == user_sessions[event.user]
            n == Len(data.choices)
        IN  /\ Len(out.lines) = n + 4
            /\ out.lines[1] = <<data.question>>
            /\ out.lines[2] = <<>>
            /\ \A i \in 1..n :
                  out.lines[2 + i] =
                      <<data.choices[i][1], ") ", data.choices[i][2]>>
            /\ out.lines[n + 3] = <<>>
            /\ out.lines[n + 4] = <<"Reply with A, B, C, or D.">>

\* C13's case: the question reply of an item whose choices the upstream
\* response listed as D, C, B, A has been sent.
C13_Witness ==
    /\ out.kind = "question"
    /\ event.at = "generate"
    /\ user_sessions[event.user] = ShuffledItem
    /\ out.lines[3][1] = "D"
    /\ out.lines[6][1] = "A"

\* The texts " b ", "b" and "B".
BVariants == { <<" ", "b", " ">>, <<"b">>, <<"B">> }

\* C14: in every reachable state in which " b ", "b" or "B" of a user is
\* the update about to be handled, check_answer does with that text
\* exactly what it does with "B": whatever step the text allows (verdict
\* and reply, score update, resulting sessions and handlers), "B" allows
\* the same step, and the other way round.
C14_CaseAndSpaceInsensitive ==
    \A u \in Users : \A text \in BVariants : \A t \in Tasks :
      (FirstFree(t) /\ queue # <<>> /\ Head(queue).kind = "text"
          /\ Head(queue).user = u /\ Head(queue).text = text) =>
        /\ ~ENABLED (/\ check_answer(t, u, text, {})
                     /\ ~check_answer(t, u, <<"B">>, {})
                     /\ UNCHANGED <<queue, ntrig>>)
        /\ ~ENABLED (/\ check_answer(t, u, <<"B">>, {})
                     /\ ~check_answer(t, u, text, {})
                     /\ UNCHANGED <<queue, ntrig>>)

\* C14's case: a user whose open item has the correct answer B has had a
\* text graded as B with the verdict Correct, the handler is sending the
\* result, and the next update in the queue is " b " of the same user.
C14_Witness ==
    /\ \E t \in Tasks : task[t] = Suspended("reply_result", event.user)
    /\ event.user \in DOMAIN user_sessions
    /\ user_sessions[event.user].correct_answer = <<"B">>
    /\ user_scores[event.user] = [correct |-> 1, total |-> 1]
    /\ queue # <<>>
    /\ Head(queue).kind = "text"
    /\ Head(queue).user = event.user
    /\ Head(queue).text = <<" ", "b", " ">>

\* C15: a score record exists after a step iff it existed before or the step
\* graded an answer of that user (new-question triggers, refused triggers,
\* malformed answers and answers of an Idle user create none); a record is
\* never removed and its counters never decrease.  With no record in the
\* initial state, a record exists iff the user has had a graded answer.
C15_Step ==
    \A u \in Users :
        /\ (u \in DOMAIN user_scores')
              <=> (u \in DOMAIN user_scores \/ Graded(u))
        /\ u \in DOMAIN user_scores
              => /\ u \in DOMAIN user_scores'
                 /\ user_scores'[u].total >= user_scores[u].total
                 /\ user_scores'[u].correct >= user_scores[u].correct

C15_NoRecord == ntrig = 0 => user_scores = <<>>

C15_RecordIffGraded == []C15_NoRecord /\ [][C15_Step]_vars

\* C15's case: a user with a record from a graded answer has sent a
\* malformed answer, and the record is still the one of that grading, while
\* the other user has none.
C15_Witness ==
    /\ event.op = "check_answer"
    /\ event.at = "entry"
    /\ event.answer \notin Letters
    /\ event.user \in DOMAIN user_scores
    /\ user_scores[event.user].total = 1
    /\ \E v \in Users : v \notin DOMAIN user_scores

\* C16: whatever item is stored for a user, a check_answer trigger of that
\* user with one of the letters A, B, C, D is graded without the handler
\* raising, and the handler is left to send the result and remove the item.
C16_Step ==
    \A u \in Users :
        (IsTrigger("check_answer") /\ event'.user = u
            /\ u \in DOMAIN user_sessions /\ event'.answer \in Letters)
            => /\ event'.raised = "none"
               /\ \E t \in Tasks : task'[t] = Suspended("reply_result", u)

C16_AwaitingCanLeave == [][C16_Step]_vars

\* C17: when the generation of an accepted new-question trigger returns and
\* the item is stored, the formatted question of exactly that item is sent
\* in the same step: no item is stored without its question.
C17_StoredWithQuestion ==
    (event.op = "problem" /\ event.at = "generate")
        => /\ event.user \in DOMAIN user_sessions
           /\ out.kind = "question"
           /\ out.question = user_sessions[event.user].question
           /\ event.raised = "none"

\* C18: an answer of a user received while that user's generation was
\* pending (question accepted, item not stored yet) is handled as the
\* answer of an Idle user: no reply, no change of scores or sessions; and
\* the pending call is not cancelled: its return stores the item for the
\* user.
C18_Step ==
    /\ \A u \in Users :
          (IsTrigger("check_answer") /\ event'.user = u
              /\ u \in event'.during)
              => /\ out' = NoReply
                 /\ user_scores' = user_scores
                 /\ user_sessions' = user_sessions
    /\ \A s \in Tasks :
          (task[s].pc = "generate" /\ task'[s] # task[s])
              => task[s].user \in DOMAIN user_sessions'

C18_AnswerWhilePending == [][C18_Step]_vars

====
